---- MODULE Spec2Model ----
(***************************************************************************)
(* Model of the confidence-scoring and suggestion pipeline of the cloud    *)
(* misconfiguration detector (backend/app/ai_suggestions.py), of the scan  *)
(* handler that calls it (main.py, scanner.py), of the analytics store     *)
(* (analytics.py) and of the tokens and roles (auth.py).                   *)
(*                                                                         *)
(* Strings that the code inspects (the finding's "type") are sequences of  *)
(* one-character strings, so that str.lower() and the substring test "in"  *)
(* are computed and not assumed.  Floats are IEEE-754 doubles; a double is *)
(* written [m |-> k, u |-> d]: the double nearest to k/10000, moved by d   *)
(* units in the last place.  The scorer only forms the sums 0.5 + bump and *)
(* the products sum * 1.2 and sum * 0.8; their double results are          *)
(*   0.5+0.4 = 0.9   0.5+0.2 = 0.7   0.5+0.1 = 0.6                         *)
(*   0.9*1.2 = 1.08  0.7*1.2 = 0.84  0.6*1.2 = 0.72                        *)
(*   0.9*0.8 = 0.7200000000000001 (one ulp above 0.72)                     *)
(*   0.7*0.8 = 0.5599999999999999 (one ulp below 0.56)                     *)
(*   0.6*0.8 = 0.48                                                        *)
(***************************************************************************)
EXTENDS Integers, Sequences, FiniteSets, TLC

\* ------------------------------------------------------------------ bounds
\* Longest batch of findings handed to get_bulk_suggestions.
MaxBatch == 2
\* Tokens created, half token lifetimes the clock advances, and remediation
\* records appended in a behaviour.
MaxTokens == 1
MaxTicks == 2
MaxRemediations == 1
\* Worker threads that can be inside record_scan at once.
MaxThreads == 2

\* ------------------------------------------------------------ text helpers
UpperAlpha == <<"A","B","C","D","E","F","G","H","I","J","K","L","M",
                "N","O","P","Q","R","S","T","U","V","W","X","Y","Z">>
LowerAlpha == <<"a","b","c","d","e","f","g","h","i","j","k","l","m",
                "n","o","p","q","r","s","t","u","v","w","x","y","z">>

\* The lower-case letter of each upper-case letter.
LowerOf ==
    [c \in { UpperAlpha[k] : k \in 1..Len(UpperAlpha) } |->
        LowerAlpha[CHOOSE k \in 1..Len(UpperAlpha) : UpperAlpha[k] = c]]

\* str.lower() on one character.
LowerChar(c) == IF c \in DOMAIN LowerOf THEN LowerOf[c] ELSE c

\* str.lower()
Lower(s) == [k \in 1..Len(s) |-> LowerChar(s[k])]

\* Python's  sub in s  for strings.
Contains(sub, s) ==
    \E k \in 1..(Len(s) - Len(sub) + 1) : SubSeq(s, k, k + Len(sub) - 1) = sub

STR_public       == <<"p","u","b","l","i","c">>
STR_unrestricted == <<"u","n","r","e","s","t","r","i","c","t","e","d">>
STR_permissive   == <<"p","e","r","m","i","s","s","i","v","e">>
STR_iam          == <<"i","a","m">>

\* ----------------------------------------------------------- float helpers
F(k) == [m |-> k, u |-> 0]
FLt(a, b) == a.m < b.m \/ (a.m = b.m /\ a.u < b.u)
FGe(a, b) == ~FLt(a, b)
FMax(a, b) == IF FLt(a, b) THEN b ELSE a
FMin(a, b) == IF FLt(b, a) THEN b ELSE a
\* a + b for the sums the scorer forms: each is the double nearest the
\* decimal sum.
FAdd(a, b) == [m |-> a.m + b.m, u |-> 0]
\* a * b for the products the scorer forms, with the double's rounding.
FMul(a, b) ==
    [m |-> (a.m * b.m) \div 10000,
     u |-> CASE a.m = 9000 /\ b.m = 8000 -> 1
             [] a.m = 7000 /\ b.m = 8000 -> 0 - 1
             [] OTHER -> 0]
\* round(x, 2)
Round2(a) == F(((a.m + 50) \div 100) * 100)

\* ---------------------------------------------------------------- findings
RequiredFields == {"type", "resource_id", "details"}

T_PublicS3 == <<"P","u","b","l","i","c"," ","S","3"," ","B","u","c","k","e","t">>
T_PermissiveIAM == <<"O","v","e","r","l","y"," ","P","e","r","m","i","s","s","i","v","e",
                     " ","I","A","M"," ","R","o","l","e">>
T_UnrestrictedSG == <<"U","N","R","E","S","T","R","I","C","T","E","D"," ","S","G">>
T_Other == <<"S","o","m","e"," ","O","t","h","e","r"," ","I","s","s","u","e">>
T_PublicPermissive == <<"P","u","b","l","i","c"," ","p","e","r","m","i","s","s","i","v","e">>

\* The findings a batch is drawn from: the three kinds the scanner reports
\* (one of them in capitals), an unknown kind, a kind that matches a high
\* and a medium pattern, a finding without "type" and the test-suite's
\* finding without "details".
Findings ==
    { [type |-> T_PublicS3, resource_id |-> "b1", details |-> "x"],
      [type |-> T_PermissiveIAM, resource_id |-> "role-1", details |-> "y"],
      [type |-> T_UnrestrictedSG, resource_id |-> "sg-1", details |-> "z"],
      [type |-> T_Other, resource_id |-> "r1", details |-> "y"],
      [type |-> T_PublicPermissive, resource_id |-> "p1", details |-> "w"],
      [resource_id |-> "n1", details |-> "no type"],
      [type |-> T_PublicS3, resource_id |-> "bucket-1"] }

Batches == UNION { [1..n -> Findings] : n \in 0..MaxBatch }

\* Strictness values a caller can pass: the three documented ones and a
\* string outside them (the parameter is an unchecked str).
StrictnessValues == {"lenient", "balanced", "strict", "paranoid"}

\* Thresholds a caller can pass, in 1/10000.
Thresholds == { F(3000), F(5600), F(7000), F(7200), F(9000) }

\* What client.chat.completions.create(...) followed by
\* .choices[0].message.content can do: give text, give empty content, or
\* raise inside the try (the call throws, or the response has no choices);
\* text is then str(e).
Outcomes ==
    { [kind |-> "content", text |-> <<"remediation steps">>],
      [kind |-> "content", text |-> <<>>],
      [kind |-> "error",   text |-> <<"API Error">>] }

VARIABLES
    api_key,                  \* module global: TRUE iff GROQ_API_KEY is set
    pc,                       \* "idle", "loop", "returned", "raised"
    misconfigurations,        \* argument of the running invocation
    ai_confidence_threshold,  \* argument
    strictness_level,         \* argument
    idx,                      \* position of the for loop (1-based)
    suggestions,              \* the local list that is returned
    score_calls,              \* indices passed to calculate_confidence_score
    enrich_calls,             \* indices passed to get_remediation_suggestions
    collab_calls,             \* indices for which the Groq client was called
    fed_back                  \* the input is the previous invocation's output

VARIABLES
    rerun,                    \* the invocation repeats the previous one's input
    first_result,             \* what the previous invocation returned
    now,                      \* datetime.utcnow(), in hours
    issued,                   \* (username, role, token) of each token created
    request,                  \* body of the scan request being served, or NoRequest
    response,                 \* what the last handler or dependency answered
    scan_history,             \* analytics.scan_history
    remediation_history,      \* analytics.remediation_history
    record_calls              \* per worker thread, its call of record_scan

\* The variables get_bulk_suggestions does not touch.
ext_vars == <<rerun, first_result, now, issued, request, response,
              scan_history, remediation_history, record_calls>>

vars == <<api_key, pc, misconfigurations, ai_confidence_threshold,
          strictness_level, idx, suggestions, score_calls, enrich_calls,
          collab_calls, fed_back, ext_vars>>

\* dict.get(key, default)
Get(d, key, default) == IF key \in DOMAIN d THEN d[key] ELSE default

\* {**a, **b}
Merge(a, b) ==
    [f \in DOMAIN a \cup DOMAIN b |-> IF f \in DOMAIN b THEN b[f] ELSE a[f]]

\* ------------------------------------------------- calculate_confidence_score
\* Variants of the scorer with one slip each, used to show that the
\* properties below depend on the scorer.
\* ... without .lower()
calculate_confidence_score_NoLower(misconfiguration, strictness) ==
    LET issue_type == Get(misconfiguration, "type", <<>>)
        base_score ==
            IF Contains(STR_public, issue_type) \/ Contains(STR_unrestricted, issue_type)
            THEN FAdd(F(5000), F(4000))
            ELSE IF Contains(STR_permissive, issue_type) \/ Contains(STR_iam, issue_type)
            THEN FAdd(F(5000), F(2000))
            ELSE FAdd(F(5000), F(1000))
        adjusted ==
            IF strictness = "strict" THEN FMul(base_score, F(12000))
            ELSE IF strictness = "lenient" THEN FMul(base_score, F(8000))
            ELSE base_score
    IN  FMin(FMax(adjusted, F(0)), F(10000))

\* ... with the medium patterns tested in the first branch
calculate_confidence_score_MediumAsHigh(misconfiguration, strictness) ==
    LET issue_type == Lower(Get(misconfiguration, "type", <<>>))
        base_score ==
            IF Contains(STR_public, issue_type) \/ Contains(STR_unrestricted, issue_type)
               \/ Contains(STR_permissive, issue_type) \/ Contains(STR_iam, issue_type)
            THEN FAdd(F(5000), F(4000))
            ELSE FAdd(F(5000), F(1000))
        adjusted ==
            IF strictness = "strict" THEN FMul(base_score, F(12000))
            ELSE IF strictness = "lenient" THEN FMul(base_score, F(8000))
            ELSE base_score
    IN  FMin(FMax(adjusted, F(0)), F(10000))

\* ... without the final clamp
calculate_confidence_score_NoClamp(misconfiguration, strictness) ==
    LET issue_type == Lower(Get(misconfiguration, "type", <<>>))
        base_score ==
            IF Contains(STR_public, issue_type) \/ Contains(STR_unrestricted, issue_type)
            THEN FAdd(F(5000), F(4000))
            ELSE IF Contains(STR_permissive, issue_type) \/ Contains(STR_iam, issue_type)
            THEN FAdd(F(5000), F(2000))
            ELSE FAdd(F(5000), F(1000))
    IN  IF strictness = "strict" THEN FMul(base_score, F(12000))
        ELSE IF strictness = "lenient" THEN FMul(base_score, F(8000))
        ELSE base_score

\* ... with the two multipliers exchanged
calculate_confidence_score_Swapped(misconfiguration, strictness) ==
    LET issue_type == Lower(Get(misconfiguration, "type", <<>>))
        base_score ==
            IF Contains(STR_public, issue_type) \/ Contains(STR_unrestricted, issue_type)
            THEN FAdd(F(5000), F(4000))
            ELSE IF Contains(STR_permissive, issue_type) \/ Contains(STR_iam, issue_type)
            THEN FAdd(F(5000), F(2000))
            ELSE FAdd(F(5000), F(1000))
        adjusted ==
            IF strictness = "strict" THEN FMul(base_score, F(8000))
            ELSE IF strictness = "lenient" THEN FMul(base_score, F(12000))
            ELSE base_score
    IN  FMin(FMax(adjusted, F(0)), F(10000))

calculate_confidence_score(misconfiguration, strictness) ==
    LET issue_type == Lower(Get(misconfiguration, "type", <<>>))
        base_score ==
            IF Contains(STR_public, issue_type) \/ Contains(STR_unrestricted, issue_type)
            THEN FAdd(F(5000), F(4000))
            ELSE IF Contains(STR_permissive, issue_type) \/ Contains(STR_iam, issue_type)
            THEN FAdd(F(5000), F(2000))
            ELSE FAdd(F(5000), F(1000))
        adjusted ==
            IF strictness = "strict" THEN FMul(base_score, F(12000))
            ELSE IF strictness = "lenient" THEN FMul(base_score, F(8000))
            ELSE base_score
    IN  FMin(FMax(adjusted, F(0)), F(10000))

\* ------------------------------------------------ get_remediation_suggestions
NoKeyText ==
    <<"AI suggestions unavailable: GROQ_API_KEY not configured. Please set your Groq API key in the .env file.">>

\* The result for one finding, given what the collaborator does when it is
\* called.  raised: a KeyError leaves the function (the prompt f-string
\* indexes the three fields before the try).  calls: how often the Groq
\* client was called.
get_remediation_suggestions(misconfiguration, outcome) ==
    IF ~api_key
    THEN [raised |-> FALSE, calls |-> 0,
          suggestion |-> NoKeyText, confidence |-> "low"]
    ELSE IF ~(RequiredFields \subseteq DOMAIN misconfiguration)
    THEN [raised |-> TRUE, calls |-> 0,
          suggestion |-> <<>>, confidence |-> "low"]
    ELSE IF outcome.kind = "content"
    THEN [raised |-> FALSE, calls |-> 1,
          suggestion |-> outcome.text,
          confidence |->
              IF Contains(STR_public, Lower(misconfiguration["type"]))
                 \/ Contains(STR_unrestricted, Lower(misconfiguration["type"]))
              THEN "high" ELSE "medium"]
    ELSE [raised |-> FALSE, calls |-> 1,
          suggestion |-> <<"Unable to generate AI suggestion: ">> \o outcome.text,
          confidence |-> "low"]

\* ------------------------------------------------------- get_bulk_suggestions
\* The test with <= where the code has <.
BelowThreshold_Inclusive(confidence_score, threshold) ==
    ~FLt(threshold, confidence_score)

\* if confidence_score < ai_confidence_threshold: continue
BelowThreshold(confidence_score, threshold) == FLt(confidence_score, threshold)

\* The banding with > where the code has >=.
confidence_category_Exclusive(confidence_score) ==
    IF FLt(F(8000), confidence_score) THEN "high"
    ELSE IF FLt(F(6000), confidence_score) THEN "medium"
    ELSE "low"

\* "high" if confidence_score >= 0.8 else "medium" if confidence_score >= 0.6
\* else "low"
confidence_category(confidence_score) ==
    IF FGe(confidence_score, F(8000)) THEN "high"
    ELSE IF FGe(confidence_score, F(6000)) THEN "medium"
    ELSE "low"

\* The dict built without **config.
EnrichedFinding_NoSpread(config, suggestion, confidence_score, strictness) ==
    [ai_suggestion |-> suggestion["suggestion"],
     confidence |-> confidence_category(confidence_score),
     confidence_score |-> Round2(confidence_score),
     strictness_level |-> strictness]

\* The dict with the enricher's own confidence (its risk bucket, or "low"
\* when it failed) in place of the band of the score.
EnrichedFinding_EnricherConfidence(config, suggestion, confidence_score, strictness) ==
    Merge(config,
          [ai_suggestion |-> suggestion["suggestion"],
           confidence |-> suggestion["confidence"],
           confidence_score |-> Round2(confidence_score),
           strictness_level |-> strictness])

\* The dict appended to suggestions.
EnrichedFinding(config, suggestion, confidence_score, strictness) ==
    Merge(config,
          [ai_suggestion |-> suggestion["suggestion"],
           confidence |-> confidence_category(confidence_score),
           confidence_score |-> Round2(confidence_score),
           strictness_level |-> strictness])

\* ------------------------------------------------------------ analytics.py
\* populate_mock_analytics() runs when the module is imported: range(15)
\* scan records and range(8) remediation records.
MockScans == 15
MockRemediations == 8

\* The records keep the fields the handlers compute; the timestamp, the mock
\* durations and the reference to the findings list are left out.
MockScanRecord(i) ==
    [id |-> i + 1,
     user |-> IF i % 3 = 0 THEN "admin" ELSE "security_analyst",
     scan_type |-> IF i % 4 = 0 THEN "automated" ELSE "manual",
     total_issues |-> 3 + (i % 3),
     issues_by_service |-> [S3 |-> 1, IAM |-> 1, EC2 |-> 1 + (i % 2)],
     issues_by_severity |-> [High |-> 1 + (i % 2), Medium |-> 1, Low |-> i % 3]]

MockRemediationRecord(i) ==
    [id |-> i + 1,
     user |-> "admin",
     issue_id |-> <<"issue-", i + 1>>,
     action |-> "remediated",
     success |-> (i % 4 # 0)]

\* The literals the analytics tests look for, as written there.
STR_Public == <<"P","u","b","l","i","c">>
STR_Unrestricted == <<"U","n","r","e","s","t","r","i","c","t","e","d">>
STR_IAM == <<"I","A","M">>
STR_Permissive == <<"P","e","r","m","i","s","s","i","v","e">>
STR_S3 == <<"S","3">>
STR_SecurityGroup == <<"S","e","c","u","r","i","t","y"," ","G","r","o","u","p">>

\* dict(counts): the keys that were counted at least once.
CountBy(labels, keys) ==
    LET n(c) == Cardinality({ k \in DOMAIN labels : labels[k] = c })
    IN  [c \in { c \in keys : n(c) > 0 } |-> n(c)]

\* The branch _categorize_by_service takes for one issue.
service_of(issue) ==
    LET issue_type == Get(issue, "type", <<>>) IN
    IF Contains(STR_S3, issue_type) THEN "S3"
    ELSE IF Contains(STR_IAM, issue_type) THEN "IAM"
    ELSE IF Contains(STR_SecurityGroup, issue_type) THEN "EC2"
    ELSE "Other"

categorize_by_service(batch) ==
    CountBy([k \in DOMAIN batch |-> service_of(batch[k])],
            {"S3", "IAM", "EC2", "Other"})

\* The branch _categorize_by_severity takes for one issue.
severity_of(issue) ==
    LET issue_type == Get(issue, "type", <<>>) IN
    IF Contains(STR_Public, issue_type) \/ Contains(STR_Unrestricted, issue_type)
    THEN "High"
    ELSE IF Contains(STR_IAM, issue_type) \/ Contains(STR_Permissive, issue_type)
    THEN "Medium"
    ELSE "Low"

categorize_by_severity(batch) ==
    CountBy([k \in DOMAIN batch |-> severity_of(batch[k])],
            {"High", "Medium", "Low"})

\* AnalyticsService.record_scan(user, misconfigurations, scan_type): the
\* history with the new record appended.
record_scan(history, user, batch, scan_type) ==
    Append(history,
           [id |-> Len(history) + 1,
            user |-> user,
            scan_type |-> scan_type,
            total_issues |-> Len(batch),
            issues_by_service |-> categorize_by_service(batch),
            issues_by_severity |-> categorize_by_severity(batch)])

\* The dict record_scan builds before it appends it: the id is read from
\* the length the history has at that moment.
scan_record(history, user, batch, scan_type) ==
    [id |-> Len(history) + 1,
     user |-> user,
     scan_type |-> scan_type,
     total_issues |-> Len(batch),
     issues_by_service |-> categorize_by_service(batch),
     issues_by_severity |-> categorize_by_severity(batch)]

\* ----------------------------------------------------------------- auth.py
\* class UserRole(str, Enum): a member has a name and a value.
UserRole_ADMIN == [name |-> "ADMIN", value |-> "admin"]
UserRole_VIEWER == [name |-> "VIEWER", value |-> "viewer"]
UserRoleMembers == {UserRole_ADMIN, UserRole_VIEWER}

User(username, role) == [username |-> username, role |-> role]

MOCK_USERS ==
    [username \in {"admin", "viewer", "security_analyst"} |->
        [password |-> CASE username = "admin" -> "admin123"
                         [] username = "viewer" -> "viewer123"
                         [] OTHER -> "analyst123",
         role |-> IF username = "admin" THEN UserRole_ADMIN ELSE UserRole_VIEWER]]

JWT_SECRET == "your-secret-key-change-in-production"
\* timedelta(hours=24)
TokenHours == 24

\* jwt.encode(payload, key): the claims, and the signature as the key and
\* the claims it was computed over.
jwt_encode(payload, key) ==
    [payload |-> payload, signed |-> [key |-> key, payload |-> payload]]

\* jwt.decode(token, key, algorithms=["HS256"]) at time at: the claims, or
\* the PyJWTError raised.  The signature is checked before exp.
jwt_decode(token, key, at) ==
    IF "payload" \notin DOMAIN token
    THEN [error |-> "DecodeError"]
    ELSE IF token.signed # [key |-> key, payload |-> token.payload]
    THEN [error |-> "InvalidSignatureError"]
    ELSE IF "exp" \in DOMAIN token.payload /\ token.payload["exp"] <= at
    THEN [error |-> "ExpiredSignatureError"]
    ELSE [error |-> "", payload |-> token.payload]

\* A token with the member's name where the code puts its value.
create_access_token_RoleName(username, role, at) ==
    jwt_encode([sub |-> username, role |-> role.name, exp |-> at + TokenHours],
               JWT_SECRET)

create_access_token(username, role, at) ==
    jwt_encode([sub |-> username, role |-> role.value, exp |-> at + TokenHours],
               JWT_SECRET)

\* UserRole(value): the member with this value; ValueError if there is none.
UserRole(value) == CHOOSE member \in UserRoleMembers : member.value = value

HTTPException(status_code, detail) ==
    [status |-> status_code, detail |-> detail]

\* verify_token at time at: the User (status 200), the HTTPException raised,
\* or, with status 500, the exception that neither except clause catches.
verify_token(token, at) ==
    LET decoded == jwt_decode(token, JWT_SECRET, at) IN
    IF decoded.error = "ExpiredSignatureError"
    THEN HTTPException(401, "Token expired")
    ELSE IF decoded.error # ""
    THEN HTTPException(401, "Invalid token")
    ELSE IF "sub" \notin DOMAIN decoded.payload
            \/ "role" \notin DOMAIN decoded.payload
    THEN HTTPException(401, "Invalid token")
    ELSE IF \A member \in UserRoleMembers :
                member.value # decoded.payload["role"]
    THEN [status |-> 500, detail |-> "ValueError"]
    ELSE [status |-> 200,
          user |-> User(decoded.payload["sub"],
                        UserRole(decoded.payload["role"]))]

\* require_admin without the test of the role.
require_admin_NoCheck(current_user) ==
    [status |-> 200, user |-> current_user]

require_admin(current_user) ==
    IF current_user.role # UserRole_ADMIN
    THEN HTTPException(403, "Admin privileges required for this operation")
    ELSE [status |-> 200, user |-> current_user]

\* authenticate_user: the User, or None.
authenticate_user(username, password) ==
    IF username \in DOMAIN MOCK_USERS /\ MOCK_USERS[username].password = password
    THEN <<User(username, MOCK_USERS[username].role)>>
    ELSE <<>>

\* AnalyticsService.record_remediation(user, issue_id, action, success): the
\* history with the new record appended.
record_remediation(history, user, issue_id, action, success) ==
    Append(history,
           [id |-> Len(history) + 1,
            user |-> user,
            issue_id |-> issue_id,
            action |-> action,
            success |-> success])

\* ---------------------------------------------------------------- scanner.py
T_PublicS3Policy == T_PublicS3 \o <<" ","P","o","l","i","c","y">>
T_UnrestrictedSecurityGroup ==
    <<"U","n","r","e","s","t","r","i","c","t","e","d"," ">> \o STR_SecurityGroup

\* An optional value: None, or the value.
None == <<>>
Some(v) == <<v>>
\* x or default
OrDefault(x, falsy, default) ==
    IF x = None \/ x[1] \in falsy THEN default ELSE x[1]

\* A key as a scanner function receives it: None, the empty string, a key
\* AWS rejects or the key AWS accepts.
AccessKeys == {None, Some(""), Some("invalid"), Some("AKIAVALID")}
SecretKeys == {None, Some(""), Some("invalid"), Some("valid-secret")}

\* not key
Falsy(key) == key = None \/ key[1] = ""

\* The boto3 calls succeed with this pair of keys; with any other pair they
\* raise NoCredentialsError or ClientError.
Accepted(aws_access_key_id, aws_secret_access_key) ==
    /\ aws_access_key_id = Some("AKIAVALID")
    /\ aws_secret_access_key = Some("valid-secret")

\* What a scan with accepted keys finds in the account: one bucket that is
\* public by ACL, by policy, both or neither, a role and a security group
\* that are at fault or not.
Accounts ==
    [bucket : SUBSET {"acl", "policy"}, role : BOOLEAN, sg : BOOLEAN]

find_public_s3_buckets(aws_access_key_id, aws_secret_access_key, account) ==
    IF Falsy(aws_access_key_id) \/ Falsy(aws_secret_access_key)
    THEN << [type |-> T_PublicS3, resource_id |-> "mock-bucket-123",
             details |-> "mock data - provide credentials for real scan"] >>
    ELSE IF ~Accepted(aws_access_key_id, aws_secret_access_key)
    THEN << [type |-> T_PublicS3, resource_id |-> "mock-bucket-123",
             details |-> "mock data - invalid credentials"] >>
    ELSE (IF "acl" \in account.bucket
          THEN << [type |-> T_PublicS3, resource_id |-> "bucket-a",
                   details |-> "publicly accessible via ACL"] >>
          ELSE <<>>)
         \o
         (IF "policy" \in account.bucket
          THEN << [type |-> T_PublicS3Policy, resource_id |-> "bucket-a",
                   details |-> "policy allowing public access"] >>
          ELSE <<>>)

find_permissive_iam_roles(aws_access_key_id, aws_secret_access_key, account) ==
    IF Falsy(aws_access_key_id) \/ Falsy(aws_secret_access_key)
    THEN << [type |-> T_PermissiveIAM, resource_id |-> "mock-role-abc",
             details |-> "mock data - provide credentials for real scan"] >>
    ELSE IF ~Accepted(aws_access_key_id, aws_secret_access_key)
    THEN << [type |-> T_PermissiveIAM, resource_id |-> "mock-role-abc",
             details |-> "mock data - invalid credentials"] >>
    ELSE IF account.role
    THEN << [type |-> T_PermissiveIAM, resource_id |-> "role-a",
             details |-> "policy allowing all actions on all resources"] >>
    ELSE <<>>

find_unrestricted_security_groups(aws_access_key_id, aws_secret_access_key, account) ==
    IF Falsy(aws_access_key_id) \/ Falsy(aws_secret_access_key)
    THEN << [type |-> T_UnrestrictedSecurityGroup, resource_id |-> "sg-mock123",
             details |-> "mock data - provide credentials for real scan"] >>
    ELSE IF ~Accepted(aws_access_key_id, aws_secret_access_key)
    THEN << [type |-> T_UnrestrictedSecurityGroup, resource_id |-> "sg-mock123",
             details |-> "mock data - invalid credentials"] >>
    ELSE IF account.sg
    THEN << [type |-> T_UnrestrictedSecurityGroup, resource_id |-> "sg-a",
             details |-> "inbound access from 0.0.0.0/0"] >>
    ELSE <<>>

\* The three lists joined with the IAM issues first.
scan_with_credentials_IAMFirst(aws_access_key_id, aws_secret_access_key, account) ==
    find_permissive_iam_roles(aws_access_key_id, aws_secret_access_key, account)
        \o find_public_s3_buckets(aws_access_key_id, aws_secret_access_key, account)
        \o find_unrestricted_security_groups(aws_access_key_id, aws_secret_access_key, account)

scan_with_credentials(aws_access_key_id, aws_secret_access_key, account) ==
    find_public_s3_buckets(aws_access_key_id, aws_secret_access_key, account)
        \o find_permissive_iam_roles(aws_access_key_id, aws_secret_access_key, account)
        \o find_unrestricted_security_groups(aws_access_key_id, aws_secret_access_key, account)

\* scan_all() calls the three functions without arguments: the keys are
\* None whatever the account holds.
scan_all(account) ==
    find_public_s3_buckets(None, None, account)
        \o find_permissive_iam_roles(None, None, account)
        \o find_unrestricted_security_groups(None, None, account)

\* ----------------------------------------------------------------- main.py
\* The body of a POST /scan-with-suggestions: ScanRequest.
RequestThresholds == {None, Some(F(0)), Some(F(3000)), Some(F(9000))}
RequestStrictness == {None, Some("")} \cup { Some(v) : v \in StrictnessValues }
\* AWSCredentials holds two str keys.
RequestCredentials ==
    {None} \cup
    { Some([access_key_id |-> a, secret_access_key |-> k]) :
        a \in AccessKeys \ {None}, k \in SecretKeys \ {None} }

\* The frame of a record_scan call: not entered, scan_record built and not
\* yet appended, or returned.
Threads == 1..MaxThreads
NoCall == [pc |-> "idle"]

NoRequest == [kind |-> "none"]
NoResponse == [status |-> 0]

Init ==
    /\ api_key \in BOOLEAN
    /\ pc = "idle"
    /\ misconfigurations = <<>>
    /\ ai_confidence_threshold = F(7000)
    /\ strictness_level = "balanced"
    /\ idx = 1
    /\ suggestions = <<>>
    /\ score_calls = <<>>
    /\ enrich_calls = <<>>
    /\ collab_calls = <<>>
    /\ fed_back = FALSE
    /\ rerun = FALSE
    /\ first_result = <<>>
    /\ now = 0
    /\ issued = {}
    /\ request = NoRequest
    /\ response = NoResponse
    /\ scan_history = [i \in 1..MockScans |-> MockScanRecord(i - 1)]
    /\ remediation_history =
           [i \in 1..MockRemediations |-> MockRemediationRecord(i - 1)]
    /\ record_calls = [t \in Threads |-> NoCall]

\* Entry of get_bulk_suggestions(batch, threshold, strictness).
Enter(batch, threshold, strictness) ==
    /\ misconfigurations' = batch
    /\ ai_confidence_threshold' = threshold
    /\ strictness_level' = strictness
    /\ pc' = "loop"
    /\ idx' = 1
    /\ suggestions' = <<>>
    /\ score_calls' = <<>>
    /\ enrich_calls' = <<>>
    /\ collab_calls' = <<>>

Invoke ==
    /\ pc = "idle"
    /\ \E batch \in Batches, threshold \in Thresholds, strictness \in StrictnessValues :
           Enter(batch, threshold, strictness)
    /\ UNCHANGED <<api_key, fed_back>>
    /\ UNCHANGED ext_vars

InLoop == pc = "loop" /\ idx <= Len(misconfigurations)
config == misconfigurations[idx]
CurrentScore == calculate_confidence_score(config, strictness_level)

\* The iteration with the enricher called ahead of the threshold test.
SkipFinding_AfterEnrich ==
    /\ InLoop
    /\ BelowThreshold(CurrentScore, ai_confidence_threshold)
    /\ score_calls' = Append(score_calls, idx)
    /\ enrich_calls' = Append(enrich_calls, idx)
    /\ idx' = idx + 1
    /\ UNCHANGED <<api_key, pc, misconfigurations, ai_confidence_threshold,
                   strictness_level, suggestions, collab_calls, fed_back>>
    /\ UNCHANGED ext_vars

\* One iteration that ends in  continue.
SkipFinding ==
    /\ InLoop
    /\ BelowThreshold(CurrentScore, ai_confidence_threshold)
    /\ score_calls' = Append(score_calls, idx)
    /\ idx' = idx + 1
    /\ UNCHANGED <<api_key, pc, misconfigurations, ai_confidence_threshold,
                   strictness_level, suggestions, enrich_calls, collab_calls,
                   fed_back>>
    /\ UNCHANGED ext_vars

\* The iteration with a finding left out when its enrichment failed.
EnrichWith_DropOnFailure(outcome) ==
    LET suggestion == get_remediation_suggestions(config, outcome) IN
    /\ InLoop
    /\ ~BelowThreshold(CurrentScore, ai_confidence_threshold)
    /\ score_calls' = Append(score_calls, idx)
    /\ enrich_calls' = Append(enrich_calls, idx)
    /\ collab_calls' = collab_calls \o [c \in 1..suggestion.calls |-> idx]
    /\ IF suggestion.raised
       THEN /\ pc' = "raised"
            /\ suggestions' = <<>>
            /\ idx' = idx
       ELSE /\ pc' = pc
            /\ suggestions' =
                   IF suggestion.calls = 1 /\ outcome.kind = "error"
                   THEN suggestions
                   ELSE Append(suggestions,
                            EnrichedFinding(config, suggestion, CurrentScore,
                                            strictness_level))
            /\ idx' = idx + 1
    /\ UNCHANGED <<api_key, misconfigurations, ai_confidence_threshold,
                   strictness_level, fed_back>>
    /\ UNCHANGED ext_vars

\* One iteration that reaches get_remediation_suggestions, the collaborator
\* behaving as outcome if it is called.
EnrichWith(outcome) ==
    LET suggestion == get_remediation_suggestions(config, outcome) IN
    /\ InLoop
    /\ ~BelowThreshold(CurrentScore, ai_confidence_threshold)
    /\ score_calls' = Append(score_calls, idx)
    /\ enrich_calls' = Append(enrich_calls, idx)
    /\ collab_calls' = collab_calls \o [c \in 1..suggestion.calls |-> idx]
    /\ IF suggestion.raised
       THEN \* the KeyError leaves get_bulk_suggestions; its local list is lost
            /\ pc' = "raised"
            /\ suggestions' = <<>>
            /\ idx' = idx
       ELSE /\ pc' = pc
            /\ suggestions' = Append(suggestions,
                   EnrichedFinding(config, suggestion, CurrentScore, strictness_level))
            /\ idx' = idx + 1
    /\ UNCHANGED <<api_key, misconfigurations, ai_confidence_threshold,
                   strictness_level, fed_back>>
    /\ UNCHANGED ext_vars

\* GROQ_API_KEY is not set: the placeholder is returned without a call.
EnrichNoKey ==
    /\ ~api_key
    /\ EnrichWith(CHOOSE o \in Outcomes : TRUE)

\* The finding lacks a field the prompt reads: KeyError.
EnrichRaises ==
    /\ api_key
    /\ InLoop
    /\ ~(RequiredFields \subseteq DOMAIN config)
    /\ EnrichWith(CHOOSE o \in Outcomes : TRUE)

\* The Groq client is called once and behaves in one of the ways it can.
EnrichCollaboratorIn(outcomes) ==
    /\ api_key
    /\ InLoop
    /\ RequiredFields \subseteq DOMAIN config
    /\ \E outcome \in outcomes : EnrichWith(outcome)

EnrichCollaborator == EnrichCollaboratorIn(Outcomes)

\* return suggestions
Return ==
    /\ pc = "loop"
    /\ idx > Len(misconfigurations)
    /\ pc' = "returned"
    /\ UNCHANGED <<api_key, misconfigurations, ai_confidence_threshold,
                   strictness_level, idx, suggestions, score_calls,
                   enrich_calls, collab_calls, fed_back>>
    /\ UNCHANGED ext_vars

\* The caller hands the returned list back to get_bulk_suggestions with the
\* same threshold and strictness.
FeedBack ==
    /\ pc = "returned"
    /\ ~fed_back
    /\ Enter(suggestions, ai_confidence_threshold, strictness_level)
    /\ fed_back' = TRUE
    /\ UNCHANGED api_key
    /\ UNCHANGED ext_vars

\* One invocation of get_bulk_suggestions.
Next ==
    \/ Invoke
    \/ SkipFinding
    \/ EnrichNoKey
    \/ EnrichRaises
    \/ EnrichCollaborator
    \/ Return

Spec == Init /\ [][Next]_vars

\* An invocation followed by a second one on its output.  The two runs
\* distinguish a collaborator that answers from one that fails.
EnrichCollaboratorFB ==
    EnrichCollaboratorIn({o \in Outcomes : o.text # <<>>})

NextFeedBack ==
    \/ Invoke
    \/ SkipFinding
    \/ EnrichNoKey
    \/ EnrichRaises
    \/ EnrichCollaboratorFB
    \/ Return
    \/ FeedBack

SpecFeedBack == Init /\ [][NextFeedBack]_vars

\* The caller repeats the invocation on the same list with the same
\* threshold and strictness, keeping what the first one returned.
Rerun ==
    /\ pc = "returned"
    /\ ~rerun
    /\ rerun' = TRUE
    /\ first_result' = suggestions
    /\ Enter(misconfigurations, ai_confidence_threshold, strictness_level)
    /\ UNCHANGED <<api_key, fed_back, now, issued, request, response,
                   scan_history, remediation_history, record_calls>>

\* Every call of the Groq client fails in the first invocation and answers
\* with text in the repeated one.
EnrichCollaboratorRerun ==
    EnrichCollaboratorIn({o \in Outcomes :
        /\ o.text # <<>>
        /\ o.kind = (IF rerun THEN "content" ELSE "error")})

NextRerun ==
    \/ Invoke
    \/ SkipFinding
    \/ EnrichNoKey
    \/ EnrichRaises
    \/ EnrichCollaboratorRerun
    \/ Return
    \/ Rerun

SpecRerun == Init /\ [][NextRerun]_vars

\* AnalyticsService._categorize_by_severity(batch), called once on a list of
\* findings; the answer is kept next to the list it was computed from.
Categorize ==
    /\ response = NoResponse
    /\ \E batch \in Batches :
           response' = [status |-> 0,
                        issues |-> batch,
                        issues_by_severity |-> categorize_by_severity(batch)]
    /\ UNCHANGED <<api_key, pc, misconfigurations, ai_confidence_threshold,
                   strictness_level, idx, suggestions, score_calls,
                   enrich_calls, collab_calls, fed_back, rerun, first_result,
                   now, issued, request, scan_history, remediation_history,
                   record_calls>>

SpecSeverity == Init /\ [][Categorize]_vars

\* ------------------------------------------------------------- the scanner
\* The variables a call of the scanner leaves alone.
store_vars == <<api_key, pc, misconfigurations, ai_confidence_threshold,
                strictness_level, idx, suggestions, score_calls, enrich_calls,
                collab_calls, fed_back, rerun, first_result, now, issued,
                request, scan_history, remediation_history, record_calls>>

\* scan_all(), called once; the answer is kept.
ScanAll ==
    /\ response = NoResponse
    /\ \E account \in Accounts :
           response' = [status |-> 0, handler |-> "scan_all",
                        account |-> account,
                        findings |-> scan_all(account)]
    /\ UNCHANGED store_vars

\* scan_with_credentials(aws_access_key_id, aws_secret_access_key), called
\* once; the answer is kept next to the arguments.
ScanWithCredentials ==
    /\ response = NoResponse
    /\ \E aws_access_key_id \in AccessKeys, aws_secret_access_key \in SecretKeys,
          account \in Accounts :
           response' = [status |-> 0, handler |-> "scan_with_credentials",
                        aws_access_key_id |-> aws_access_key_id,
                        aws_secret_access_key |-> aws_secret_access_key,
                        account |-> account,
                        findings |-> scan_with_credentials(aws_access_key_id,
                                         aws_secret_access_key, account)]
    /\ UNCHANGED store_vars

\* With keys that are not empty a boto3 call can raise something other than
\* NoCredentialsError or ClientError, which leaves scan_with_credentials.
ScanWithCredentialsRaises ==
    /\ response = NoResponse
    /\ \E aws_access_key_id \in AccessKeys, aws_secret_access_key \in SecretKeys :
           /\ ~Falsy(aws_access_key_id)
           /\ ~Falsy(aws_secret_access_key)
           /\ response' = [status |-> 0, handler |-> "scan_with_credentials",
                           aws_access_key_id |-> aws_access_key_id,
                           aws_secret_access_key |-> aws_secret_access_key,
                           raised |-> "EndpointConnectionError"]
    /\ UNCHANGED store_vars

NextScanner ==
    \/ ScanAll
    \/ ScanWithCredentials
    \/ ScanWithCredentialsRaises

SpecScanner == Init /\ [][NextScanner]_vars

\* ------------------------------------------------- scan_with_ai_suggestions
\* The variables of get_bulk_suggestions' frame that a handler step outside
\* it leaves alone, and the variables no scan request touches.
auth_vars == <<rerun, first_result, now, issued, remediation_history,
               record_calls>>

\* POST /scan-with-suggestions by an authenticated user: the scan, then the
\* call of get_bulk_suggestions with the request's threshold and strictness
\* or their defaults.
ScanRequest ==
    /\ pc = "idle"
    /\ request = NoRequest
    /\ \E username \in DOMAIN MOCK_USERS,
          credentials \in RequestCredentials,
          threshold \in RequestThresholds,
          strictness \in RequestStrictness,
          account \in Accounts :
           \* an account is looked at only with keys AWS accepts
           /\ \/ /\ credentials # None
                 /\ Accepted(credentials[1].access_key_id,
                             credentials[1].secret_access_key)
              \/ account = (CHOOSE a \in Accounts : TRUE)
           /\ request' = [kind |-> "scan",
                          current_user |-> User(username, MOCK_USERS[username].role),
                          credentials |-> credentials,
                          ai_confidence_threshold |-> threshold,
                          strictness_level |-> strictness]
           /\ Enter(IF credentials # None
                    THEN scan_with_credentials(credentials[1].access_key_id,
                                               credentials[1].secret_access_key,
                                               account)
                    ELSE scan_all(account),
                    OrDefault(threshold, {F(0)}, F(7000)),
                    OrDefault(strictness, {""}, "balanced"))
    /\ UNCHANGED <<api_key, fed_back, response, scan_history>>
    /\ UNCHANGED auth_vars

\* A boto3 call raises something other than NoCredentialsError or
\* ClientError (the endpoint cannot be reached): except Exception, HTTP 500.
ScanRaises ==
    /\ pc = "idle"
    /\ request = NoRequest
    /\ \E username \in DOMAIN MOCK_USERS,
          threshold \in RequestThresholds,
          strictness \in RequestStrictness :
           request' = [kind |-> "scan",
                       current_user |-> User(username, MOCK_USERS[username].role),
                       credentials |-> Some([access_key_id |-> "AKIAVALID",
                                             secret_access_key |-> "valid-secret"]),
                       ai_confidence_threshold |-> threshold,
                       strictness_level |-> strictness]
    /\ response' = [status |-> 500]
    /\ UNCHANGED <<api_key, pc, misconfigurations, ai_confidence_threshold,
                   strictness_level, idx, suggestions, score_calls,
                   enrich_calls, collab_calls, fed_back, scan_history>>
    /\ UNCHANGED auth_vars

\* The handler recording what the scan returned in place of the filtered
\* suggestions.
Respond_RecordsScanResult ==
    /\ pc = "returned"
    /\ request # NoRequest
    /\ LET current_user == request.current_user
           findings ==
               [j \in DOMAIN suggestions |->
                   Merge(suggestions[j],
                         [can_remediate |-> current_user.role = UserRole_ADMIN,
                          scanned_by |-> current_user.username])]
       IN  /\ scan_history' =
                  record_scan(scan_history, current_user.username, misconfigurations,
                              "ai_powered")
           /\ response' =
                  [status |-> 200,
                   findings |-> findings,
                   scan_metadata |->
                       [total_findings |-> Len(findings),
                        scanned_by |-> current_user.username,
                        scan_type |-> "ai_powered"]]
    /\ pc' = "idle"
    /\ UNCHANGED <<api_key, misconfigurations, ai_confidence_threshold,
                   strictness_level, idx, suggestions, score_calls,
                   enrich_calls, collab_calls, fed_back, request>>
    /\ UNCHANGED auth_vars

\* get_bulk_suggestions returned: can_remediate and scanned_by are added,
\* the scan is recorded and the findings are answered.
Respond ==
    /\ pc = "returned"
    /\ request # NoRequest
    /\ LET current_user == request.current_user
           findings ==
               [j \in DOMAIN suggestions |->
                   Merge(suggestions[j],
                         [can_remediate |-> current_user.role = UserRole_ADMIN,
                          scanned_by |-> current_user.username])]
       IN  /\ scan_history' =
                  record_scan(scan_history, current_user.username, findings,
                              "ai_powered")
           /\ response' =
                  [status |-> 200,
                   findings |-> findings,
                   scan_metadata |->
                       [total_findings |-> Len(findings),
                        scanned_by |-> current_user.username,
                        scan_type |-> "ai_powered"]]
    /\ pc' = "idle"
    /\ UNCHANGED <<api_key, misconfigurations, ai_confidence_threshold,
                   strictness_level, idx, suggestions, score_calls,
                   enrich_calls, collab_calls, fed_back, request>>
    /\ UNCHANGED auth_vars

\* One POST /scan-with-suggestions.  The scanner's findings carry type,
\* resource_id and details, so the enricher does not raise here.
NextScan ==
    \/ ScanRequest
    \/ ScanRaises
    \/ SkipFinding
    \/ EnrichNoKey
    \/ EnrichCollaborator
    \/ Return
    \/ Respond

SpecScan == Init /\ [][NextScan]_vars

\* ---------------------------------------------- record_scan on worker threads
\* The handlers are plain def functions, which the server runs on worker
\* threads; a thread can be switched out between any two steps of
\* record_scan.  Each thread calls record_scan once.
RecordedBatches ==
    LET account == CHOOSE a \in Accounts : TRUE IN
    { <<>>, find_public_s3_buckets(None, None, account), scan_all(account) }

\* The variables record_scan leaves alone.
nonscan_vars == <<api_key, pc, misconfigurations, ai_confidence_threshold,
                  strictness_level, idx, suggestions, score_calls,
                  enrich_calls, collab_calls, fed_back, rerun, first_result,
                  now, issued, request, response, remediation_history>>

\* scan_record = {"id": len(scan_history) + 1, ...}
RecordScanBuild ==
    /\ \E t \in Threads, user \in {"admin", "viewer"}, batch \in RecordedBatches :
           /\ record_calls[t].pc = "idle"
           /\ record_calls' =
                  [record_calls EXCEPT ![t] =
                      [pc |-> "built",
                       scan_record |-> scan_record(scan_history, user, batch,
                                                   "ai_powered")]]
    /\ UNCHANGED scan_history
    /\ UNCHANGED nonscan_vars

\* scan_history.append(scan_record); return scan_record["id"]
RecordScanAppend ==
    /\ \E t \in Threads :
           /\ record_calls[t].pc = "built"
           /\ scan_history' = Append(scan_history, record_calls[t].scan_record)
           /\ record_calls' =
                  [record_calls EXCEPT ![t] =
                      [pc |-> "returned",
                       scan_record |-> record_calls[t].scan_record,
                       position |-> Len(scan_history) + 1,
                       returned |-> record_calls[t].scan_record.id]]
    /\ UNCHANGED nonscan_vars

NextRecordScan ==
    \/ RecordScanBuild
    \/ RecordScanAppend

SpecRecordScan == Init /\ [][NextRecordScan]_vars

\* ------------------------------------------------------ tokens and roles
\* The variables of get_bulk_suggestions and of the scan handler.
scan_vars == <<api_key, pc, misconfigurations, ai_confidence_threshold,
               strictness_level, idx, suggestions, score_calls, enrich_calls,
               collab_calls, fed_back, rerun, first_result, request,
               scan_history, record_calls>>

\* POST /auth/login
Login ==
    /\ \E username \in DOMAIN MOCK_USERS, password \in {"admin123", "wrong"} :
           LET user == authenticate_user(username, password) IN
           IF user = None
           THEN /\ response' = [handler |-> "login", status |-> 401,
                                detail |-> "Invalid credentials"]
                /\ issued' = issued
           ELSE LET token == create_access_token(user[1].username, user[1].role, now) IN
                /\ Cardinality(issued) < MaxTokens
                /\ issued' = issued \cup
                       {[username |-> user[1].username, role |-> user[1].role,
                         token |-> token]}
                /\ response' = [handler |-> "login", status |-> 200,
                                access_token |-> token]
    /\ UNCHANGED <<now, remediation_history>>
    /\ UNCHANGED scan_vars

\* create_access_token(username, role) called directly, as the tests do.
CreateAccessToken ==
    /\ Cardinality(issued) < MaxTokens
    /\ \E username \in {"testuser", "viewer"}, role \in UserRoleMembers :
           issued' = issued \cup
               {[username |-> username, role |-> role,
                 token |-> create_access_token(username, role, now)]}
    /\ UNCHANGED <<now, response, remediation_history>>
    /\ UNCHANGED scan_vars

\* Half a token lifetime passes.
Tick ==
    /\ now < MaxTicks * (TokenHours \div 2)
    /\ now' = now + (TokenHours \div 2)
    /\ UNCHANGED <<issued, response, remediation_history>>
    /\ UNCHANGED scan_vars

\* Tokens from outside the behaviour: the tests' string that is no JWT, a
\* token signed with another key, a token whose claims were changed after
\* signing, tokens signed with JWT_SECRET that lack sub, lack role, name a
\* role UserRole does not have, or expired an hour ago, and the token a
\* viewer got half a lifetime earlier.
OtherTokens(at) ==
    { [malformed |-> "invalid-token"],
      create_access_token("viewer", UserRole_VIEWER, at - (TokenHours \div 2)),
      jwt_encode([sub |-> "admin", role |-> "admin", exp |-> at + TokenHours],
                 "another-key"),
      [payload |-> [sub |-> "viewer", role |-> "admin", exp |-> at + TokenHours],
       signed |-> [key |-> JWT_SECRET,
                   payload |-> [sub |-> "viewer", role |-> "viewer",
                                exp |-> at + TokenHours]]],
      jwt_encode([role |-> "admin", exp |-> at + TokenHours], JWT_SECRET),
      jwt_encode([sub |-> "admin", exp |-> at + TokenHours], JWT_SECRET),
      jwt_encode([sub |-> "admin", role |-> "superuser", exp |-> at + TokenHours],
                 JWT_SECRET),
      jwt_encode([sub |-> "testuser", role |-> "admin", exp |-> at - 1],
                 JWT_SECRET) }

\* The bearer tokens a request can carry.
BearerTokens == { e.token : e \in issued } \cup OtherTokens(now)

\* verify_token(credentials)
VerifyToken ==
    /\ \E token \in BearerTokens :
           LET result == verify_token(token, now) IN
           response' = [handler |-> "verify_token", status |-> result.status,
                        token |-> token, at |-> now, result |-> result]
    /\ UNCHANGED <<now, issued, remediation_history>>
    /\ UNCHANGED scan_vars

\* POST /analytics/remediation: verify_token, require_admin, then the
\* handler body.
RecordRemediation ==
    /\ \E token \in BearerTokens :
           LET verified == verify_token(token, now)
               admitted == IF verified.status = 200
                           THEN require_admin(verified.user)
                           ELSE verified
           IN
           IF admitted.status = 200
           THEN /\ Len(remediation_history) < MockRemediations + MaxRemediations
                /\ remediation_history' =
                       record_remediation(remediation_history,
                           admitted.user.username,
                           <<"issue-", Len(remediation_history) + 1>>,
                           "remediated", TRUE)
                /\ response' =
                       [handler |-> "record_remediation_action", status |-> 200,
                        token |-> token, at |-> now,
                        result |-> [remediation_id |-> Len(remediation_history) + 1,
                                    status |-> "recorded"]]
           ELSE /\ remediation_history' = remediation_history
                /\ response' =
                       [handler |-> "record_remediation_action",
                        status |-> admitted.status,
                        token |-> token, at |-> now, result |-> admitted]
    /\ UNCHANGED <<now, issued>>
    /\ UNCHANGED scan_vars

NextAuth ==
    \/ Login
    \/ CreateAccessToken
    \/ Tick
    \/ VerifyToken
    \/ RecordRemediation

SpecAuth == Init /\ [][NextAuth]_vars

\* ================================================================ properties
\* The kind predicates as the specification words them, on a finding.
HasType(f) == "type" \in DOMAIN f
HighRiskKind(f) ==
    /\ HasType(f)
    /\ \/ Contains(STR_public, Lower(f["type"]))
       \/ Contains(STR_unrestricted, Lower(f["type"]))
MediumRiskKind(f) ==
    /\ HasType(f)
    /\ ~HighRiskKind(f)
    /\ \/ Contains(STR_permissive, Lower(f["type"]))
       \/ Contains(STR_iam, Lower(f["type"]))

Inputs == { misconfigurations[k] : k \in DOMAIN misconfigurations }
Emitted == { suggestions[j] : j \in DOMAIN suggestions }

\* C1: a finding whose type contains "public" or "unrestricted" in any letter
\* case scores >= 0.8 under "balanced", and when get_bulk_suggestions emits
\* it under "balanced" its confidence is "high" and its score >= 0.8.
C1_HighRiskBalanced ==
    /\ \A f \in Inputs :
           HighRiskKind(f) =>
               FGe(calculate_confidence_score(f, "balanced"), F(8000))
    /\ strictness_level = "balanced" =>
           \A e \in Emitted :
               HighRiskKind(e) =>
                   /\ e["confidence"] = "high"
                   /\ FGe(e["confidence_score"], F(8000))

\* A capitalised unrestricted kind has been emitted as "high" under balanced.
C1_Witness ==
    /\ pc = "returned"
    /\ strictness_level = "balanced"
    /\ \E e \in Emitted : Get(e, "type", <<>>) = T_UnrestrictedSG /\ e["confidence"] = "high"

\* C2: a finding whose type contains "permissive" or "iam" in any letter
\* case and neither "public" nor "unrestricted" scores in [0.6, 0.8) under
\* "balanced", and when emitted under "balanced" its confidence is "medium".
C2_MediumRiskBalanced ==
    /\ \A f \in Inputs :
           MediumRiskKind(f) =>
               LET score == calculate_confidence_score(f, "balanced") IN
               FGe(score, F(6000)) /\ FLt(score, F(8000))
    /\ strictness_level = "balanced" =>
           \A e \in Emitted :
               MediumRiskKind(e) =>
                   /\ e["confidence"] = "medium"
                   /\ FGe(e["confidence_score"], F(6000))
                   /\ FLt(e["confidence_score"], F(8000))

\* The IAM kind has been emitted as "medium" under balanced, next to a kind
\* that matches "permissive" and "public" and is not medium.
C2_Witness ==
    /\ pc = "returned"
    /\ strictness_level = "balanced"
    /\ \E e \in Emitted : Get(e, "type", <<>>) = T_PermissiveIAM /\ e["confidence"] = "medium"
    /\ \E e \in Emitted : Get(e, "type", <<>>) = T_PublicPermissive /\ e["confidence"] = "high"

\* C3: for every finding, one without "type" included, and every strictness
\* value, recognised or not, 0.0 <= score <= 1.0.
C3_ScoreBounds ==
    \A f \in Inputs : \A strictness \in StrictnessValues :
        LET score == calculate_confidence_score(f, strictness) IN
        FGe(score, F(0)) /\ FGe(F(10000), score)

\* A finding without type and a finding whose strict score is clamped to 1.0
\* have both been scored, under an unrecognised strictness value.
C3_Witness ==
    /\ pc = "returned"
    /\ strictness_level \notin {"lenient", "balanced", "strict"}
    /\ \E f \in Inputs : ~HasType(f)
    /\ \E f \in Inputs : calculate_confidence_score(f, "strict") = F(10000)

\* C4: score(strict) >= score(balanced) >= score(lenient) for every finding,
\* and both inequalities are strict for a high-risk finding.
C4_Monotone ==
    \A f \in Inputs :
        LET strict   == calculate_confidence_score(f, "strict")
            balanced == calculate_confidence_score(f, "balanced")
            lenient  == calculate_confidence_score(f, "lenient")
        IN  /\ FGe(strict, balanced)
            /\ FGe(balanced, lenient)
            /\ HighRiskKind(f) => FLt(balanced, strict) /\ FLt(lenient, balanced)

\* "Public S3 Bucket" has been scored under strict, where its score is the
\* clamp 1.0, above its balanced 0.9.
C4_Witness ==
    /\ pc = "returned"
    /\ strictness_level = "strict"
    /\ \E e \in Emitted :
           /\ Get(e, "type", <<>>) = T_PublicS3
           /\ e["confidence_score"] = F(10000)
           /\ calculate_confidence_score(e, "balanced") = F(9000)

\* Indices of the input findings whose score reaches the threshold, and the
\* j-th of them in input order.
KeptIndices ==
    { k \in DOMAIN misconfigurations :
        FGe(calculate_confidence_score(misconfigurations[k], strictness_level),
            ai_confidence_threshold) }
KeptIndex(kept, j) ==
    CHOOSE k \in kept : Cardinality({ i \in kept : i <= k }) = j
Count(seq, x) == Cardinality({ i \in DOMAIN seq : seq[i] = x })
ValidStrictness == {"lenient", "balanced", "strict"}

\* C5: feeding the list get_bulk_suggestions returned back into it with the
\* same threshold and strictness does not raise, drops nothing and keeps the
\* order: the second result has the findings of the first, field by field
\* (the suggestion text aside, which the collaborator writes anew).
C5_FilterIdempotent ==
    fed_back =>
        /\ pc # "raised"
        /\ pc = "returned" =>
               /\ Len(suggestions) = Len(misconfigurations)
               /\ \A k \in DOMAIN suggestions :
                      \A f \in DOMAIN misconfigurations[k] \ {"ai_suggestion"} :
                          suggestions[k][f] = misconfigurations[k][f]

\* Two survivors of different kinds have gone through the second run, under
\* lenient, where the scores are the rounded products.
C5_Witness ==
    /\ fed_back
    /\ pc = "returned"
    /\ strictness_level = "lenient"
    /\ Len(suggestions) = 2
    /\ Get(suggestions[1], "type", <<>>) = T_PublicS3
    /\ Get(suggestions[2], "type", <<>>) = T_UnrestrictedSG

\* C6: get_remediation_suggestions never raises to its caller and every
\* emitted finding carries a non-empty ai_suggestion.
C6_EnricherNeverRaises ==
    /\ pc # "raised"
    /\ \A e \in Emitted : e["ai_suggestion"] # <<>>

\* C7: a strictness value outside lenient, balanced, strict fails the
\* invocation: nothing is scored, enriched or returned.
C7_InvalidStrictnessRejected ==
    strictness_level \notin ValidStrictness =>
        /\ pc # "returned"
        /\ score_calls = <<>>
        /\ enrich_calls = <<>>
        /\ suggestions = <<>>

\* C8: when a finding of the batch lacks type, resource_id or details, the
\* invocation does not return, emits nothing, and does not score that
\* finding.
C8_MissingFieldRaises ==
    \A k \in DOMAIN misconfigurations :
        ~(RequiredFields \subseteq DOMAIN misconfigurations[k]) =>
            /\ pc # "returned"
            /\ suggestions = <<>>
            /\ Count(score_calls, k) = 0

\* C9: the returned list is the input findings whose score is >= the
\* threshold, each once, in input order, with their fields.
C9_ExactlySurvivorsInOrder ==
    pc = "returned" =>
        LET kept == KeptIndices IN
        /\ Len(suggestions) = Cardinality(kept)
        /\ \A j \in DOMAIN suggestions :
               LET k == KeptIndex(kept, j) IN
               \A f \in DOMAIN misconfigurations[k] :
                   suggestions[j][f] = misconfigurations[k][f]

\* Of two findings the first was dropped and the second, whose score equals
\* the threshold, was kept.
C9_Witness ==
    /\ pc = "returned"
    /\ Len(misconfigurations) = 2
    /\ KeptIndices = {2}
    /\ calculate_confidence_score(misconfigurations[2], strictness_level)
           = ai_confidence_threshold
    /\ Len(suggestions) = 1
    /\ suggestions[1]["resource_id"] = misconfigurations[2]["resource_id"]

\* C10: of the findings the loop has handled, the enricher was invoked once
\* for each whose score is >= the threshold and never for another, and the
\* collaborator was called at most once per enricher invocation.
Handled == IF pc = "raised" THEN idx ELSE idx - 1
C10_EnrichOncePerSurvivor ==
    LET kept == KeptIndices IN
    \A k \in DOMAIN misconfigurations :
        /\ Count(enrich_calls, k) = IF k \in kept /\ k <= Handled THEN 1 ELSE 0
        /\ Count(collab_calls, k) <= Count(enrich_calls, k)

\* A batch has returned in which one finding was dropped without enrichment
\* and the other was enriched by a single collaborator call that failed.
C10_Witness ==
    /\ pc = "returned"
    /\ Len(misconfigurations) = 2
    /\ Len(enrich_calls) = 1
    /\ collab_calls = enrich_calls
    /\ \E e \in Emitted :
           e["ai_suggestion"] = <<"Unable to generate AI suggestion: ", "API Error">>

\* C11: for the same findings, strictness and threshold, a run where every
\* collaborator call fails and a run where every call succeeds emit the same
\* findings in the same order with the same confidence_score, confidence and
\* strictness_level; the two outputs differ in ai_suggestion only.
C11_OutcomeIndependent ==
    /\ rerun => pc # "raised"
    /\ (rerun /\ pc = "returned") =>
           /\ Len(suggestions) = Len(first_result)
           /\ \A j \in DOMAIN suggestions :
                  /\ DOMAIN suggestions[j] = DOMAIN first_result[j]
                  /\ \A f \in DOMAIN suggestions[j] \ {"ai_suggestion"} :
                         suggestions[j][f] = first_result[j][f]

\* Two findings shipped by both runs, with the failure text in the first
\* and the collaborator's text in the second.
C11_Witness ==
    /\ rerun
    /\ pc = "returned"
    /\ Len(suggestions) = 2
    /\ Len(collab_calls) = 2
    /\ \A j \in DOMAIN suggestions :
           /\ first_result[j]["ai_suggestion"] =
                  <<"Unable to generate AI suggestion: ", "API Error">>
           /\ suggestions[j]["ai_suggestion"] = <<"remediation steps">>

\* The two-finding input of the end-to-end scenarios.
ScenarioInput ==
    << [type |-> T_PublicS3, resource_id |-> "b1", details |-> "x"],
       [type |-> T_Other, resource_id |-> "r1", details |-> "y"] >>

\* C12: for the input [Public S3 Bucket "b1", Some Other Issue "r1"] with
\* "balanced" and threshold 0.7, get_bulk_suggestions returns exactly one
\* finding, the one for "b1", with confidence_score 0.9 and confidence
\* "high"; "r1", which scores 0.6, is dropped.
C12_ScenarioThreshold07 ==
    ( /\ pc = "returned"
      /\ misconfigurations = ScenarioInput
      /\ strictness_level = "balanced"
      /\ ai_confidence_threshold = F(7000) ) =>
        /\ Len(suggestions) = 1
        /\ suggestions[1]["resource_id"] = "b1"
        /\ suggestions[1]["confidence_score"] = F(9000)
        /\ suggestions[1]["confidence"] = "high"
        /\ calculate_confidence_score(ScenarioInput[2], "balanced") = F(6000)

C12_Witness ==
    /\ pc = "returned"
    /\ misconfigurations = ScenarioInput
    /\ strictness_level = "balanced"
    /\ ai_confidence_threshold = F(7000)
    /\ Len(suggestions) = 1
    /\ score_calls = <<1, 2>>

\* C13: for the same input with "balanced" and threshold 0.3,
\* get_bulk_suggestions returns both findings in input order, and "r1" is
\* emitted with confidence_score 0.6 and confidence "medium": a score on the
\* 0.6 boundary is banded medium.
C13_ScenarioThreshold03 ==
    ( /\ pc = "returned"
      /\ misconfigurations = ScenarioInput
      /\ strictness_level = "balanced"
      /\ ai_confidence_threshold = F(3000) ) =>
        /\ Len(suggestions) = 2
        /\ suggestions[1]["resource_id"] = "b1"
        /\ suggestions[2]["resource_id"] = "r1"
        /\ suggestions[2]["confidence_score"] = F(6000)
        /\ suggestions[2]["confidence"] = "medium"

C13_Witness ==
    /\ pc = "returned"
    /\ misconfigurations = ScenarioInput
    /\ strictness_level = "balanced"
    /\ ai_confidence_threshold = F(3000)
    /\ Len(suggestions) = 2
    /\ enrich_calls = <<1, 2>>

\* The bands as the specification states them.
Band(score) ==
    CHOOSE b \in {"high", "medium", "low"} :
        /\ b = "high" <=> FGe(score, F(8000))
        /\ b = "medium" <=> (FGe(score, F(6000)) /\ FLt(score, F(8000)))

\* C14: in every finding emitted by get_bulk_suggestions, whatever its kind
\* and the strictness, confidence is the band of the emitted
\* confidence_score: "high" iff >= 0.8, "medium" iff in [0.6, 0.8), "low"
\* otherwise; the band follows the final score and not the risk bucket.
C14_BandOfEmittedScore ==
    \A e \in Emitted : e["confidence"] = Band(e["confidence_score"])

\* A public kind emitted as "medium" under lenient.
C14_Witness ==
    /\ pc = "returned"
    /\ strictness_level = "lenient"
    /\ \E e \in Emitted :
           /\ Get(e, "type", <<>>) = T_PublicS3
           /\ e["confidence"] = "medium"
           /\ e["confidence_score"] = F(7200)

\* The fields get_bulk_suggestions writes into every dict it emits.
AddedFields == {"ai_suggestion", "confidence", "confidence_score", "strictness_level"}

\* The emitted dict out carries the fields named in fields with the values
\* the input dict has, and the four added fields, strictness_level being the
\* argument of the invocation.
Carries(out, in, fields) ==
    /\ \A f \in fields : f \in DOMAIN out /\ out[f] = in[f]
    /\ AddedFields \subseteq DOMAIN out
    /\ out["strictness_level"] = strictness_level

\* While an invocation runs, the list it was given and the dicts in it stay
\* as they were passed.
InputUnmodified ==
    [][pc = "loop" => misconfigurations' = misconfigurations]_vars

\* C17 as stated: every emitted finding carries every field of its input
\* finding with the input's value, plus ai_suggestion, confidence,
\* confidence_score and the strictness_level of the invocation; the input is
\* left unmodified.
C17_AllFieldsUnchanged ==
    /\ [](pc = "returned" =>
            LET kept == KeptIndices IN
            \A j \in DOMAIN suggestions :
                LET k == KeptIndex(kept, j) IN
                Carries(suggestions[j], misconfigurations[k],
                        DOMAIN misconfigurations[k]))
    /\ InputUnmodified

\* C17, amended: every emitted finding carries every field of its input
\* finding other than ai_suggestion, confidence, confidence_score and
\* strictness_level with the input's value; those four are set by the
\* invocation, whatever the input held under these names, strictness_level
\* to the argument passed; the input findings and the input list are left
\* unmodified.
C17_OriginalFieldsUnchanged ==
    /\ [](pc = "returned" =>
            LET kept == KeptIndices IN
            \A j \in DOMAIN suggestions :
                LET k == KeptIndex(kept, j) IN
                Carries(suggestions[j], misconfigurations[k],
                        DOMAIN misconfigurations[k] \ AddedFields))
    /\ InputUnmodified

\* A finding that came in with the text of a failed enrichment has been
\* emitted with its type, resource_id and details and the text of a
\* successful one.
C17_Witness ==
    /\ fed_back
    /\ pc = "returned"
    /\ \E j \in DOMAIN suggestions :
           /\ misconfigurations[j]["ai_suggestion"] =
                  <<"Unable to generate AI suggestion: ", "API Error">>
           /\ suggestions[j]["ai_suggestion"] = <<"remediation steps">>
           /\ \A f \in RequiredFields :
                  suggestions[j][f] = misconfigurations[j][f]

\* The bucket of the specification's rule, and the bucket behind the
\* scorer's bump.
RuleBucket(f) ==
    IF HighRiskKind(f) THEN "High"
    ELSE IF MediumRiskKind(f) THEN "Medium"
    ELSE "Low"
ScorerBucket(f) ==
    LET score == calculate_confidence_score(f, "balanced") IN
    IF score = F(9000) THEN "High"
    ELSE IF score = F(7000) THEN "Medium"
    ELSE "Low"

\* C15: _categorize_by_severity counts every finding in the bucket of the
\* rule (High if the type contains "public" or "unrestricted" in any letter
\* case, otherwise Medium if it contains "permissive" or "iam", otherwise
\* Low), which is the bucket of the scorer's bump (+0.4 / +0.2 / +0.1).
C15_SeverityFollowsRule ==
    "issues_by_severity" \in DOMAIN response =>
        /\ response.issues_by_severity =
               CountBy([k \in DOMAIN response.issues |-> RuleBucket(response.issues[k])],
                       {"High", "Medium", "Low"})
        /\ response.issues_by_severity =
               CountBy([k \in DOMAIN response.issues |-> ScorerBucket(response.issues[k])],
                       {"High", "Medium", "Low"})

\* C16: a scan-with-suggestions request with ai_confidence_threshold = 0.0
\* shows all findings: every finding the scan returned appears in the
\* response, whatever its score and the strictness level.
C16_ZeroThresholdShowsAll ==
    ( /\ request # NoRequest
      /\ request.ai_confidence_threshold = Some(F(0))
      /\ response.status = 200 ) =>
        /\ Len(response.findings) = Len(misconfigurations)
        /\ \A k \in DOMAIN misconfigurations :
               /\ response.findings[k]["type"] = misconfigurations[k]["type"]
               /\ response.findings[k]["resource_id"] =
                      misconfigurations[k]["resource_id"]

\* The users a token can name.
KnownUsers ==
    { User(username, role) :
        username \in DOMAIN MOCK_USERS \cup {"testuser"}, role \in UserRoleMembers }

\* C18: require_admin returns the user unchanged when the role is admin and
\* raises HTTP 403 otherwise; in every step that changes remediation_history
\* one record is appended, by a remediation request answered 200 whose
\* caller's role is admin, so a rejected request leaves it unchanged.
C18_AdminOnly ==
    /\ [](\A u \in KnownUsers :
            require_admin(u) =
                IF u.role = UserRole_ADMIN
                THEN [status |-> 200, user |-> u]
                ELSE [status |-> 403,
                      detail |-> "Admin privileges required for this operation"])
    /\ [][remediation_history' # remediation_history =>
            /\ response'.handler = "record_remediation_action"
            /\ response'.status = 200
            /\ LET caller == verify_token(response'.token, now) IN
               /\ caller.status = 200
               /\ caller.user.role = UserRole_ADMIN
               /\ Len(remediation_history') = Len(remediation_history) + 1
               /\ \A i \in DOMAIN remediation_history :
                      remediation_history'[i] = remediation_history[i]
               /\ remediation_history'[Len(remediation_history')].user =
                      caller.user.username]_vars

\* An admin's request has been recorded and a later request, by a caller
\* holding a viewer's token, was answered 403.
C18_Witness ==
    /\ Len(remediation_history) = MockRemediations + 1
    /\ remediation_history[MockRemediations + 1].user \in {"admin", "testuser"}
    /\ response.handler = "record_remediation_action"
    /\ response.status = 403
    /\ verify_token(response.token, response.at).user.role = UserRole_VIEWER

\* C19: verify_token applied to the token create_access_token(username,
\* role) returned, before its expiry 24 hours after creation, returns the
\* User with that username and that role.
C19_TokenRoundTrip ==
    /\ \A e \in issued :
           now < e.token.payload["exp"] =>
               verify_token(e.token, now) =
                   [status |-> 200, user |-> User(e.username, e.role)]
    /\ response.status # 0 /\ response.handler = "verify_token" =>
           \A e \in issued :
               (e.token = response.token /\ response.at < e.token.payload["exp"]) =>
                   response.result = [status |-> 200, user |-> User(e.username, e.role)]

\* A token created for "testuser" as admin was verified half a lifetime
\* later and gave that user.
C19_Witness ==
    /\ response.status = 200
    /\ response.handler = "verify_token"
    /\ response.at > 0
    /\ \E e \in issued :
           /\ e.token = response.token
           /\ e.token.payload["exp"] = TokenHours
           /\ e.username = "testuser"
           /\ e.role = UserRole_ADMIN
           /\ response.result.user = User("testuser", UserRole_ADMIN)

\* C20: every token verify_token does not accept is rejected with HTTP 401,
\* "Token expired" for an expired token and "Invalid token" for any other
\* (bad signature, malformed, no sub or role, unknown role); no other error
\* escapes.
C20_RejectedWith401 ==
    (response.status # 0 /\ response.handler = "verify_token"
        /\ response.status # 200) =>
        /\ response.result.status = 401
        /\ response.result.detail =
               IF jwt_decode(response.token, JWT_SECRET, response.at).error
                      = "ExpiredSignatureError"
               THEN "Token expired" ELSE "Invalid token"

\* The three mock findings, by type and resource_id, in the order S3, IAM,
\* security group.
IsMockScan(findings) ==
    /\ Len(findings) = 3
    /\ findings[1]["type"] = T_PublicS3
    /\ findings[1]["resource_id"] = "mock-bucket-123"
    /\ findings[2]["type"] = T_PermissiveIAM
    /\ findings[2]["resource_id"] = "mock-role-abc"
    /\ findings[3]["type"] = T_UnrestrictedSecurityGroup
    /\ findings[3]["resource_id"] = "sg-mock123"
    /\ \A k \in 1..3 :
           findings[k]["details"] = "mock data - provide credentials for real scan"

\* C21: when the access key or the secret key is absent or empty, scan_all
\* and scan_with_credentials return exactly the three mock findings in the
\* order S3, IAM, security group; every finding they return, mock or not,
\* has type, resource_id and details present and non-empty.
C21_MockScan ==
    "findings" \in DOMAIN response =>
        /\ response.handler = "scan_all" => IsMockScan(response.findings)
        /\ ( /\ response.handler = "scan_with_credentials"
              /\ \/ Falsy(response.aws_access_key_id)
                 \/ Falsy(response.aws_secret_access_key) ) =>
               IsMockScan(response.findings)
        /\ \A k \in DOMAIN response.findings :
               LET f == response.findings[k] IN
               /\ RequiredFields \subseteq DOMAIN f
               /\ f["type"] # <<>>
               /\ f["resource_id"] # ""
               /\ f["details"] # ""

\* scan_with_credentials was given the accepted access key and an empty
\* secret and answered with the three mock findings.
C21_Witness ==
    /\ "findings" \in DOMAIN response
    /\ response.handler = "scan_with_credentials"
    /\ response.aws_access_key_id = Some("AKIAVALID")
    /\ response.aws_secret_access_key = Some("")
    /\ Len(response.findings) = 3

\* C22: after any interleaving of record_scan calls all records of
\* scan_history have pairwise distinct ids, each call has returned the id of
\* the record it appended, and no record that was there has been removed or
\* changed.
C22_DistinctIds ==
    /\ \A i, j \in DOMAIN scan_history :
           i # j => scan_history[i].id # scan_history[j].id
    /\ \A t \in Threads :
           record_calls[t].pc = "returned" =>
               /\ record_calls[t].position \in DOMAIN scan_history
               /\ scan_history[record_calls[t].position] = record_calls[t].scan_record
               /\ record_calls[t].returned = scan_history[record_calls[t].position].id
    /\ Len(scan_history) >= MockScans
    /\ \A i \in 1..MockScans : scan_history[i] = MockScanRecord(i - 1)

\* scan_history as populate_mock_analytics leaves it.
MockHistory == [i \in 1..MockScans |-> MockScanRecord(i - 1)]

\* C23: a scan-with-suggestions request that returned successfully has
\* appended exactly one record to scan_history, after filtering and
\* enrichment, whose total_issues is the response's total_findings; until
\* then, and when the request ends in HTTP 500, nothing is appended.
C23_OneRecordPerScan ==
    /\ response.status = 200 =>
           /\ Len(scan_history) = MockScans + 1
           /\ \A i \in 1..MockScans : scan_history[i] = MockHistory[i]
           /\ scan_history[MockScans + 1].total_issues =
                  response.scan_metadata.total_findings
           /\ response.scan_metadata.total_findings = Len(response.findings)
           /\ response.scan_metadata.total_findings = Len(suggestions)
           /\ scan_history[MockScans + 1].user = request.current_user.username
    /\ response.status # 200 => scan_history = MockHistory

\* A scan of three findings of which the filter kept two has been answered
\* and recorded with total_issues 2.
C23_Witness ==
    /\ response.status = 200
    /\ Len(misconfigurations) = 3
    /\ response.scan_metadata.total_findings = 2
    /\ Len(scan_history) = MockScans + 1
    /\ scan_history[MockScans + 1].total_issues = 2
====
